---- MODULE Spec2Model ----
(***************************************************************************)
(* A model of app.py of pdf2excel: the header normaliser                   *)
(* (make_columns_unique), the OCR table reconstruction                     *)
(* (extract_ocr_table_from_image) and the main processing block that       *)
(* extracts text-layer tables page by page, falls back to OCR, concatenates*)
(* the collected tables and offers the spreadsheet for download.           *)
(*                                                                         *)
(* A Python str is modelled as a sequence of one-character strings, so     *)
(* that strip(), split(), isdigit() and the f-string "{col}_{n}" are       *)
(* computed character by character as Python computes them.                *)
(***************************************************************************)
EXTENDS Integers, Sequences, FiniteSets, TLC

VARIABLES
  pc,                 \* position of the running script / of the helper under test
  columns,            \* argument of make_columns_unique (helper specification)
  new_columns,        \* value returned by make_columns_unique
  ocr_data,           \* rows (line_num, text) returned by pytesseract.image_to_data
  df,                 \* value returned by extract_ocr_table_from_image
  pages,              \* the uploaded PDF: per page, what the external services return
  enable_ocr,         \* the checkbox
  i,                  \* loop index of the page loops (0-based, as enumerate)
  all_tables,         \* list of collected DataFrames
  text_based_pages,   \* set of 0-based page indices
  ocr_applied_pages,  \* list of 1-based page numbers
  final_df,           \* result of pd.concat, or NoDF
  download,           \* the bytes handed to st.download_button, or NoDF
  st,                 \* kinds of streamlit messages emitted so far
  origins,            \* history: for each element of all_tables, its page and path
  ocr_calls,          \* history: 0-based pages passed to extract_ocr_table_from_image
  failed_at           \* history: where an exception was raised, or "none"

vars == <<pc, columns, new_columns, ocr_data, df, pages, enable_ocr, i, all_tables,
          text_based_pages, ocr_applied_pages, final_df, download, st, origins,
          ocr_calls, failed_at>>

-----------------------------------------------------------------------------
(* Bounds of the model *)
MaxCols == 3
MaxWords == 4
MaxLine == 3
MaxPages == 2

-----------------------------------------------------------------------------
(* Python values *)

\* Python None / pandas NaN: no str equals it, since every character of a
\* modelled str is a one-character string.
None == <<"None">>

EmptyStr == <<>>
Unnamed == <<"U", "n", "n", "a", "m", "e", "d">>

Whitespace == {" ", "\t", "\n"}
DigitChars == <<"0", "1", "2", "3", "4", "5", "6", "7", "8", "9">>

isdigit(ch) == \E d \in 1..10 : DigitChars[d] = ch

\* str(n) for a natural number n: its decimal digits.
RECURSIVE str(_)
str(n) == IF n < 10 THEN <<DigitChars[n + 1]>>
          ELSE str(n \div 10) \o <<DigitChars[(n % 10) + 1]>>

RECURSIVE lstrip(_)
lstrip(s) == IF s # <<>> /\ Head(s) \in Whitespace THEN lstrip(Tail(s)) ELSE s

RECURSIVE rstrip(_)
rstrip(s) == IF s # <<>> /\ s[Len(s)] \in Whitespace
             THEN rstrip(SubSeq(s, 1, Len(s) - 1)) ELSE s

\* str.strip()
strip(s) == rstrip(lstrip(s))

\* str.split() with no argument: maximal runs of non-whitespace characters.
RECURSIVE split_loop(_, _, _)
split_loop(s, cur, acc) ==
  IF s = <<>> THEN (IF cur = <<>> THEN acc ELSE Append(acc, cur))
  ELSE IF Head(s) \in Whitespace
       THEN split_loop(Tail(s), <<>>, IF cur = <<>> THEN acc ELSE Append(acc, cur))
       ELSE split_loop(Tail(s), Append(cur, Head(s)), acc)

split(s) == split_loop(s, <<>>, <<>>)

\* ' '.join(xs)
RECURSIVE join(_)
join(xs) == IF xs = <<>> THEN <<>>
            ELSE IF Len(xs) = 1 THEN xs[1]
            ELSE xs[1] \o <<" ">> \o join(Tail(xs))

-----------------------------------------------------------------------------
(* make_columns_unique, app.py lines 23-35 *)

\* a variant that numbers a repeated label from its total position count
mcu_suffix_off_by_one(col, n) == col \o <<"_">> \o str(n + 1)

\* f"{col}_{seen[col]}"
mcu_suffix(col, n) == col \o <<"_">> \o str(n)

RECURSIVE mcu_loop(_, _, _, _)
mcu_loop(cols, k, seen, out) ==
  IF k > Len(cols) THEN out
  ELSE LET c0 == cols[k]
           col == IF c0 = None \/ strip(c0) = EmptyStr THEN Unnamed ELSE c0
       IN IF col \in DOMAIN seen
          THEN LET n == seen[col] + 1
               IN mcu_loop(cols, k + 1, [seen EXCEPT ![col] = n],
                           Append(out, mcu_suffix(col, n)))
          ELSE mcu_loop(cols, k + 1, (col :> 0) @@ seen, Append(out, col))

make_columns_unique(cols) == mcu_loop(cols, 1, [x \in {} |-> 0], <<>>)

-----------------------------------------------------------------------------
(* Inputs of the helper specification *)

A == <<"A">>
X == <<"X">>
A_1 == <<"A", "_", "1">>

Labels == {None, EmptyStr, <<" ">>, A, X, A_1, Unnamed}

SeqsUpTo(S, n) == UNION {[1..m -> S] : m \in 0..n}

\* A pandas DataFrame: its column labels and its rows, each row a sequence of
\* cells in column order. NoDF stands for "no DataFrame" (an unset variable).
DataFrame(rows, cols) == [columns |-> cols, rows |-> rows, none |-> FALSE]
EmptyDataFrame == DataFrame(<<>>, <<>>)
NoDF == [columns |-> <<>>, rows |-> <<>>, none |-> TRUE]

\* DataFrame.empty: some axis has length 0
empty(d) == Len(d.rows) = 0 \/ Len(d.columns) = 0

IdleNormalize == /\ columns = <<>>
                 /\ new_columns = <<>>

IdleOcr == /\ ocr_data = <<>>
           /\ df = NoDF

IdlePipeline == /\ pages = <<>>
                /\ enable_ocr = FALSE
                /\ i = 0
                /\ all_tables = <<>>
                /\ text_based_pages = {}
                /\ ocr_applied_pages = <<>>
                /\ final_df = NoDF
                /\ download = NoDF
                /\ st = {}
                /\ origins = <<>>
                /\ ocr_calls = <<>>
                /\ failed_at = "none"

pipeline_vars == <<pages, enable_ocr, i, all_tables, text_based_pages,
                   ocr_applied_pages, final_df, download, st, origins, ocr_calls,
                   failed_at>>

InitNormalize == /\ pc = "normalize_call"
                 /\ columns \in SeqsUpTo(Labels, MaxCols)
                 /\ new_columns = <<>>
                 /\ IdleOcr
                 /\ IdlePipeline

CallMakeColumnsUnique ==
  /\ pc = "normalize_call"
  /\ new_columns' = make_columns_unique(columns)
  /\ pc' = "normalize_ret"
  /\ UNCHANGED <<columns, ocr_data, df, pipeline_vars>>

NextNormalize == CallMakeColumnsUnique

SpecNormalize == InitNormalize /\ [][NextNormalize]_vars

-----------------------------------------------------------------------------
(* extract_ocr_table_from_image, app.py lines 44-60 *)

\* ocr_data.dropna(subset=['text'])
dropna(data) == SelectSeq(data, LAMBDA w : w.text # None)

\* a variant of the digit test that accepts any non-blank character
has_alnum(line) == \E k \in 1..Len(line) : line[k] \notin Whitespace

\* any(char.isdigit() for char in line)
has_digit(line) == \E k \in 1..Len(line) : isdigit(line[k])

\* a variant of the arity test that also keeps shorter lines
row_kept_or_shorter(line, headers) == Len(split(line)) <= Len(headers)

\* len(line.split()) == len(headers)
row_kept(line, headers) == Len(split(line)) = Len(headers)

\* groupby('line_num')['text'].apply(lambda x: ' '.join(x)).tolist():
\* one line per distinct line_num, in ascending line_num order, the words of a
\* group joined in row order
RECURSIVE groupby_lines(_, _)
groupby_lines(data, keys) ==
  IF keys = {} THEN <<>>
  ELSE LET k == CHOOSE x \in keys : \A y \in keys : x <= y
           grp == SelectSeq(data, LAMBDA w : w.line_num = k)
       IN <<join([j \in 1..Len(grp) |-> grp[j].text])>>
            \o groupby_lines(data, keys \ {k})

ocr_lines(data) ==
  groupby_lines(dropna(data), {dropna(data)[j].line_num : j \in 1..Len(dropna(data))})

RECURSIVE ocr_rows(_, _)
ocr_rows(rest, headers) ==
  IF rest = <<>> THEN <<>>
  ELSE (IF row_kept(Head(rest), headers) THEN <<split(Head(rest))>> ELSE <<>>)
         \o ocr_rows(Tail(rest), headers)

extract_ocr_table_from_image(data) ==
  IF dropna(data) = <<>> THEN EmptyDataFrame
  ELSE LET table_lines == SelectSeq(ocr_lines(data), has_digit)
       IN IF table_lines = <<>> \/ Len(table_lines) < 2 THEN EmptyDataFrame
          ELSE LET headers == split(table_lines[1])
               IN DataFrame(ocr_rows(Tail(table_lines), headers),
                            make_columns_unique(headers))

(* Inputs of the OCR specification *)

\* the text of an OCR row: a letter word, a digit word, a blank word, or NaN
One == <<"1">>
Blank == <<" ">>
Words == {A, One, Blank, None}

OcrWord(n, t) == [line_num |-> n, text |-> t]

Roll == <<"R", "o", "l", "l">>
Name == <<"N", "a", "m", "e">>
Score == <<"S", "c", "o", "r", "e">>
N101 == <<"1", "0", "1">>
Alice == <<"A", "l", "i", "c", "e">>
N90 == <<"9", "0">>
Bad == <<"b", "a", "d">>

\* the words of the lines "Roll Name Score", "101 Alice 90", "bad"
RollExample == <<OcrWord(1, Roll), OcrWord(1, Name), OcrWord(1, Score),
                 OcrWord(2, N101), OcrWord(2, Alice), OcrWord(2, N90),
                 OcrWord(3, Bad)>>

OcrRows == [line_num : 1..MaxLine, text : Words]

InitOcr == /\ pc = "ocr_call"
           /\ \/ \E m \in 0..MaxWords : ocr_data \in [1..m -> OcrRows]
              \/ ocr_data = RollExample
           /\ df = NoDF
           /\ IdleNormalize
           /\ IdlePipeline

CallExtractOcrTable ==
  /\ pc = "ocr_call"
  /\ df' = extract_ocr_table_from_image(ocr_data)
  /\ pc' = "ocr_ret"
  /\ UNCHANGED <<columns, new_columns, ocr_data, pipeline_vars>>

NextOcr == CallExtractOcrTable

SpecOcr == InitOcr /\ [][NextOcr]_vars

-----------------------------------------------------------------------------
(* The main processing block, app.py lines 63-130 *)

Range(f) == {f[k] : k \in DOMAIN f}

\* position of the first occurrence of x in sequence f
Pos(f, x) == CHOOSE k \in 1..Len(f) : f[k] = x /\ \A j \in 1..(k - 1) : f[j] # x

HasDuplicates(f) == \E j, k \in 1..Len(f) : j # k /\ f[j] = f[k]

\* `if table and len(table) > 1`
usable(table) == table # <<>> /\ Len(table) > 1

\* lines 76-80: the DataFrames built from one page's tables, in table order
RECURSIVE page_frames(_)
page_frames(tables) ==
  IF tables = <<>> THEN <<>>
  ELSE (IF usable(Head(tables))
        THEN <<DataFrame(Tail(Head(tables)), make_columns_unique(Head(tables)[1]))>>
        ELSE <<>>) \o page_frames(Tail(tables))

\* a variant of the OCR guard that sends every page to OCR
ocr_candidate_always(idx, tbp) == TRUE

\* `if i not in text_based_pages`
ocr_candidate(idx, tbp) == idx \notin tbp

\* a variant that records the 0-based index
ocr_page_number_zero_based(idx) == idx

\* `ocr_applied_pages.append(i + 1)`
ocr_page_number(idx) == idx + 1

\* a variant of the truthiness test that never takes the else branch
no_tables_never(tables) == FALSE

\* `if all_tables:` is false
no_tables(tables) == tables = <<>>

\* the union of the frames' column labels in first-seen order
RECURSIVE union_columns(_, _)
union_columns(frames, acc) ==
  IF frames = <<>> THEN acc
  ELSE LET cs == Head(frames).columns
           fresh == SelectSeq(cs, LAMBDA c : c \notin Range(acc))
       IN union_columns(Tail(frames), acc \o fresh)

\* pd.concat raises on an empty list, and on frames whose column indexes
\* differ when one of them holds a duplicate label (it cannot be reindexed)
concat_raises(frames) ==
  \/ frames = <<>>
  \/ /\ \E t \in 1..Len(frames) : HasDuplicates(frames[t].columns)
     /\ \E t \in 1..Len(frames) : frames[t].columns # frames[1].columns

\* one frame's rows laid out under the unified columns, NaN where it has none
reindex(frame, cols) ==
  [r \in 1..Len(frame.rows) |->
     [c \in 1..Len(cols) |->
        IF cols[c] \in Range(frame.columns)
        THEN frame.rows[r][Pos(frame.columns, cols[c])]
        ELSE None]]

RECURSIVE concat_rows(_, _)
concat_rows(frames, cols) ==
  IF frames = <<>> THEN <<>>
  ELSE (IF Head(frames).columns = cols THEN Head(frames).rows
        ELSE reindex(Head(frames), cols)) \o concat_rows(Tail(frames), cols)

\* a variant of the concatenation that keeps only the frames whose columns
\* are those of the first frame
pd_concat_inner(frames) ==
  DataFrame(concat_rows(SelectSeq(frames, LAMBDA f : f.columns = frames[1].columns),
                        frames[1].columns),
            frames[1].columns)

\* pd.concat(all_tables, ignore_index=True), when it does not raise
pd_concat(frames) ==
  LET cols == IF \A t \in 1..Len(frames) : frames[t].columns = frames[1].columns
              THEN frames[1].columns
              ELSE union_columns(frames, <<>>)
  IN DataFrame(concat_rows(frames, cols), cols)

\* final_df.to_excel(writer, index=False, sheet_name='Extracted Data')
to_excel(frame) == [columns |-> frame.columns, rows |-> frame.rows, none |-> FALSE]

(* Inputs of the pipeline specification *)

c1 == <<"1">>
c2 == <<"2">>
c3 == <<"3">>
c4 == <<"4">>
c5 == <<"5">>
c6 == <<"6">>

T_empty == <<>>
T_header_only == << <<A, X>> >>
T_AX == << <<A, X>>, <<c1, c2>>, <<c3, c4>> >>
T_AU == << <<A, None>>, <<c5, c6>> >>
T_dup == << <<A, A, A_1>>, <<c1, c2, c3>> >>

PageTables == { <<T_header_only>>, <<T_AX>>, <<T_empty, T_AU>>, <<T_AX, T_AU>>,
                <<T_dup>> }

\* OCR output of a page: nothing; the lines "1 A", "2 1"; the lines "1 A", "2"
OcrNothing == <<>>
OcrTable == <<OcrWord(1, c1), OcrWord(1, A), OcrWord(2, c2), OcrWord(2, c1)>>
OcrNoRows == <<OcrWord(1, c1), OcrWord(1, A), OcrWord(2, c2)>>

PageOcr == {OcrNothing, OcrTable, OcrNoRows}

\* a page: what extract_tables() and extract_text() return for it, and what
\* the OCR engine returns for its image
PageKinds ==
  [tables : PageTables, text : {TRUE}, ocr : PageOcr]
    \cup [tables : {<<>>}, text : BOOLEAN, ocr : PageOcr]

Init == /\ pc = "start"
        /\ pages \in SeqsUpTo(PageKinds, MaxPages)
        /\ enable_ocr \in BOOLEAN
        /\ i = 0
        /\ all_tables = <<>>
        /\ text_based_pages = {}
        /\ ocr_applied_pages = <<>>
        /\ final_df = NoDF
        /\ download = NoDF
        /\ st = {}
        /\ origins = <<>>
        /\ ocr_calls = <<>>
        /\ failed_at = "none"
        /\ IdleNormalize
        /\ IdleOcr

helper_vars == <<columns, new_columns, ocr_data, df>>

\* a variant of the handler that reports the error and goes on to step 3
ExceptResume(where) ==
  /\ pc' = "compile"
  /\ st' = st \cup {"error"}
  /\ failed_at' = where
  /\ UNCHANGED <<helper_vars, pages, enable_ocr, i, all_tables, text_based_pages,
                 ocr_applied_pages, final_df, download, origins, ocr_calls>>

\* lines 129-130: `except Exception as e: st.error(...)`, the script ends
Except(where) ==
  /\ pc' = "end"
  /\ st' = st \cup {"error"}
  /\ failed_at' = where
  /\ UNCHANGED <<helper_vars, pages, enable_ocr, i, all_tables, text_based_pages,
                 ocr_applied_pages, final_df, download, origins, ocr_calls>>

\* lines 71-72: seek and pdfplumber.open, which may raise
OpenPdf ==
  /\ pc = "start"
  /\ \/ Except("open")
     \/ /\ pc' = "text"
        /\ i' = 0
        /\ UNCHANGED <<helper_vars, pages, enable_ocr, all_tables, text_based_pages,
                       ocr_applied_pages, final_df, download, st, origins, ocr_calls,
                       failed_at>>

\* lines 73-85: one iteration of the text extraction loop
ExtractPage ==
  /\ pc = "text"
  /\ i < Len(pages)
  /\ \/ Except("extract")
     \/ LET page == pages[i + 1]
            frames == page_frames(page.tables)
        IN /\ IF page.tables # <<>>
              THEN /\ all_tables' = all_tables \o frames
                   /\ origins' = origins \o
                        [k \in 1..Len(frames) |-> [page |-> i, path |-> "text"]]
                   /\ text_based_pages' = text_based_pages \cup {i}
                   /\ st' = st
              ELSE /\ st' = IF page.text THEN st \cup {"page_text_warning"} ELSE st
                   /\ UNCHANGED <<all_tables, origins, text_based_pages>>
           /\ i' = i + 1
           /\ UNCHANGED <<pc, helper_vars, pages, enable_ocr, ocr_applied_pages,
                          final_df, download, ocr_calls, failed_at>>

\* the text loop is exhausted; lines 88-91: `if enable_ocr`, read the bytes and
\* rasterize them, which may raise
TextLoopDone ==
  /\ pc = "text"
  /\ i = Len(pages)
  /\ IF enable_ocr
     THEN \/ Except("rasterize")
          \/ /\ pc' = "ocr"
             /\ i' = 0
             /\ UNCHANGED <<helper_vars, pages, enable_ocr, all_tables,
                            text_based_pages, ocr_applied_pages, final_df, download,
                            st, origins, ocr_calls, failed_at>>
     ELSE /\ pc' = "compile"
          /\ UNCHANGED <<helper_vars, pages, enable_ocr, i, all_tables,
                         text_based_pages, ocr_applied_pages, final_df, download, st,
                         origins, ocr_calls, failed_at>>

\* lines 93-98: one iteration of the OCR loop
OcrPage ==
  /\ pc = "ocr"
  /\ i < Len(pages)
  /\ IF ocr_candidate(i, text_based_pages)
     THEN \/ Except("ocr")
          \/ LET d == extract_ocr_table_from_image(pages[i + 1].ocr)
             IN /\ ocr_calls' = Append(ocr_calls, i)
                /\ IF ~empty(d)
                   THEN /\ all_tables' = Append(all_tables, d)
                        /\ origins' = Append(origins, [page |-> i, path |-> "ocr"])
                        /\ ocr_applied_pages' =
                             Append(ocr_applied_pages, ocr_page_number(i))
                   ELSE UNCHANGED <<all_tables, origins, ocr_applied_pages>>
                /\ i' = i + 1
                /\ UNCHANGED <<pc, helper_vars, pages, enable_ocr, text_based_pages,
                               final_df, download, st, failed_at>>
     ELSE /\ i' = i + 1
          /\ UNCHANGED <<pc, helper_vars, pages, enable_ocr, all_tables,
                         text_based_pages, ocr_applied_pages, final_df, download, st,
                         origins, ocr_calls, failed_at>>

\* the OCR loop is exhausted
OcrLoopDone ==
  /\ pc = "ocr"
  /\ i = Len(pages)
  /\ pc' = "compile"
  /\ UNCHANGED <<helper_vars, pages, enable_ocr, i, all_tables, text_based_pages,
                 ocr_applied_pages, final_df, download, st, origins, ocr_calls,
                 failed_at>>

\* lines 101-105 and 126-127: the warning when nothing was collected, else
\* pd.concat (which may raise) and the preview
Compile ==
  /\ pc = "compile"
  /\ IF no_tables(all_tables)
     THEN /\ st' = st \cup {"no_tables_warning"}
          /\ pc' = "end"
          /\ UNCHANGED <<helper_vars, pages, enable_ocr, i, all_tables,
                         text_based_pages, ocr_applied_pages, final_df, download,
                         origins, ocr_calls, failed_at>>
     ELSE IF concat_raises(all_tables)
          THEN Except("concat")
          ELSE /\ final_df' = pd_concat(all_tables)
               /\ st' = st \cup {"preview"}
               /\ pc' = "export"
               /\ UNCHANGED <<helper_vars, pages, enable_ocr, i, all_tables,
                              text_based_pages, ocr_applied_pages, download, origins,
                              ocr_calls, failed_at>>

\* lines 107-124: serialize (which may raise), offer the download, report
\* the OCR pages
Export ==
  /\ pc = "export"
  /\ \/ Except("export")
     \/ /\ download' = to_excel(final_df)
        /\ st' = st \cup {"success", "download"}
                    \cup (IF ocr_applied_pages # <<>> THEN {"ocr_info"} ELSE {})
        /\ pc' = "end"
        /\ UNCHANGED <<helper_vars, pages, enable_ocr, i, all_tables,
                       text_based_pages, ocr_applied_pages, final_df, origins,
                       ocr_calls, failed_at>>

Next == \/ OpenPdf
        \/ ExtractPage
        \/ TextLoopDone
        \/ OcrPage
        \/ OcrLoopDone
        \/ Compile
        \/ Export

Spec == Init /\ [][Next]_vars

-----------------------------------------------------------------------------
(* Claims about make_columns_unique *)

\* the label after the "Unnamed" replacement, stated without strip()
Placeholder(c) == IF c = None THEN Unnamed
                  ELSE IF \A k \in 1..Len(c) : c[k] \in Whitespace THEN Unnamed
                  ELSE c

\* the reference scan: position k carries its label unchanged when no earlier
\* position has the same label, and label_<number of earlier occurrences> otherwise
RefNormalize(cols) ==
  [k \in 1..Len(cols) |->
     LET lab == Placeholder(cols[k])
         earlier == Cardinality({j \in 1..(k - 1) : Placeholder(cols[j]) = lab})
     IN IF earlier = 0 THEN lab ELSE lab \o <<"_">> \o str(earlier)]

PairwiseDistinct(s) == \A j, k \in 1..Len(s) : j # k => s[j] # s[k]

A_2 == <<"A", "_", "2">>
Unnamed_1 == Unnamed \o <<"_", "1">>

\* C2: for every input, make_columns_unique returns a sequence of the same
\* length whose labels are pairwise distinct (also for inputs such as
\* ["A","A","A_1"]).
C2_OutputUnique ==
  pc = "normalize_ret" =>
    /\ Len(new_columns) = Len(columns)
    /\ PairwiseDistinct(new_columns)

\* C8: make_columns_unique equals the reference scan (None and blank entries
\* become "Unnamed", the k-th later occurrence of a label is emitted as
\* label_k), and the two worked examples come out as stated.
C8_EqualsReferenceScan ==
  pc = "normalize_ret" =>
    /\ new_columns = RefNormalize(columns)
    /\ columns = <<A, A, A>> => new_columns = <<A, A_1, A_2>>
    /\ columns = <<EmptyStr, None, X>> => new_columns = <<Unnamed, Unnamed_1, X>>

\* C8 witness: the second worked example has been normalised
C8_Witness ==
  /\ pc = "normalize_ret"
  /\ columns = <<EmptyStr, None, X>>
  /\ new_columns = <<Unnamed, Unnamed_1, X>>

-----------------------------------------------------------------------------
(* Claims about extract_ocr_table_from_image *)

\* Q: the OCR lines that contain a digit, selected by position
DigitLines(data) ==
  LET L == ocr_lines(data)
      idx == {j \in 1..Len(L) : \E k \in 1..Len(L[j]) : \E d \in 1..10 : L[j][k] = DigitChars[d]}
      nth(n) == CHOOSE j \in idx : Cardinality({m \in idx : m < j}) = n - 1
  IN [n \in 1..Cardinality(idx) |-> L[nth(n)]]

\* the lines of Q after the first whose token count is the header's, by position
RefRows(Q) ==
  LET n == Len(split(Q[1]))
      idx == {j \in 2..Len(Q) : Len(split(Q[j])) = n}
      nth(m) == CHOOSE j \in idx : Cardinality({x \in idx : x < j}) = m - 1
  IN [m \in 1..Cardinality(idx) |-> split(Q[nth(m)])]

RollLines == <<Roll \o <<" ">> \o Name \o <<" ">> \o Score,
               N101 \o <<" ">> \o Alice \o <<" ">> \o N90,
               Bad>>

\* C3 as stated: the lines "Roll Name Score", "101 Alice 90", "bad" give the
\* header [Roll, Name, Score] and the single row [101, Alice, 90]; fewer than
\* two digit-containing lines give an empty result.
C3_Original ==
  pc = "ocr_ret" =>
    /\ ocr_data = RollExample =>
          /\ df.columns = <<Roll, Name, Score>>
          /\ df.rows = << <<N101, Alice, N90>> >>
    /\ Len(DigitLines(ocr_data)) < 2 => df = EmptyDataFrame

\* C3 as amended: of the lines "Roll Name Score", "101 Alice 90", "bad" only
\* one contains a digit, so the result is empty; whenever fewer than two
\* digit-containing lines exist the result is empty.
C3_RollExampleEmpty ==
  pc = "ocr_ret" =>
    /\ ocr_data = RollExample =>
          /\ ocr_lines(ocr_data) = RollLines
          /\ df = EmptyDataFrame
    /\ Len(DigitLines(ocr_data)) < 2 => df = EmptyDataFrame /\ empty(df)

\* C3 witness: the example has been processed, its lines are those of the claim
C3_Witness ==
  /\ pc = "ocr_ret"
  /\ ocr_data = RollExample
  /\ ocr_lines(ocr_data) = RollLines
  /\ Len(DigitLines(ocr_data)) = 1

\* C7: with Q the digit-containing lines in line-number order: fewer than two
\* give an empty result; otherwise the header is the normalised token list of
\* Q[0], the data rows are exactly, in order, the token lists of the later
\* lines of Q whose token count equals the header's, every row has the
\* header's length, and a result without data rows counts as empty.
C7_OcrReconstruction ==
  pc = "ocr_ret" =>
    LET Q == DigitLines(ocr_data)
    IN /\ Len(Q) < 2 => df = EmptyDataFrame
       /\ Len(Q) >= 2 =>
            /\ df.columns = make_columns_unique(split(Q[1]))
            /\ df.rows = RefRows(Q)
            /\ \A r \in 1..Len(df.rows) : Len(df.rows[r]) = Len(df.columns)
            /\ df.rows = <<>> => empty(df)

\* C7 witness: three digit lines, the header of one token, one later line
\* kept and one dropped for its token count
C7_Witness ==
  /\ pc = "ocr_ret"
  /\ Len(DigitLines(ocr_data)) = 3
  /\ Len(df.rows) = 1
  /\ Len(df.columns) = 1

-----------------------------------------------------------------------------
(* Claims about the main processing block *)

PageIndices == 0..(Len(pages) - 1)

\* no table of the page has more than one row
NoUsableTable(page) == \A t \in 1..Len(page.tables) : Len(page.tables[t]) <= 1

\* some table of the page has two or more rows
HasUsableTable(page) == \E t \in 1..Len(page.tables) : Len(page.tables[t]) >= 2

Done == "download" \in st
NoTablesFound == "no_tables_warning" \in st
Failed == "error" \in st

\* C1: a page without any table of more than one row is classified NoTables
\* (it is not in the text-based set) and, when OCR is enabled, OCR is run on it.
C1_DegeneratePagesGetOcr ==
  (pc = "compile" /\ failed_at = "none" /\ enable_ocr) =>
    \A p \in PageIndices :
      NoUsableTable(pages[p + 1]) =>
        /\ p \notin text_based_pages
        /\ p \in Range(ocr_calls)

\* C4 as stated: a failure raised while processing one page (text extraction
\* or OCR) does not make the run fail, and the tables already collected are
\* still merged and offered.
C4_Original ==
  (pc = "end" /\ failed_at \in {"extract", "ocr"}) =>
    /\ ~Failed
    /\ all_tables # <<>> => Done

\* C4 as amended: a failure raised while processing one page is not isolated:
\* the run ends at once in Failed with no output, whatever was collected; only
\* a page whose OCR yields no usable table without raising is passed over,
\* the remaining pages still being processed.
C4_FailureAbortsRun ==
  /\ failed_at # "none" =>
       /\ pc = "end"
       /\ Failed
       /\ ~Done
       /\ download = NoDF
  /\ (pc = "compile" /\ enable_ocr) =>
       /\ Range(ocr_calls) = PageIndices \ text_based_pages
       /\ Len(ocr_calls) = Cardinality(PageIndices \ text_based_pages)

\* C4 witness: OCR raised on a page after a table had been collected
C4_Witness ==
  /\ failed_at = "ocr"
  /\ all_tables # <<>>
  /\ pc = "end"
  /\ download = NoDF

\* C5: OCR is invoked on a page only if the page produced zero text-layer
\* tables; when every page has a text-layer table of two or more rows, OCR is
\* never invoked, whether or not OCR is enabled.
C5_OcrOnlyWithoutTextTables ==
  /\ \A k \in 1..Len(ocr_calls) :
       /\ ocr_calls[k] \in PageIndices
       /\ ~HasUsableTable(pages[ocr_calls[k] + 1])
       /\ \A t \in 1..Len(origins) :
            origins[t].page = ocr_calls[k] => origins[t].path = "ocr"
  /\ (\A p \in PageIndices : HasUsableTable(pages[p + 1])) => ocr_calls = <<>>

\* C5 witness: OCR enabled, the first page has a text-layer table and was not
\* sent to OCR, the second has none and was
C5_Witness ==
  /\ pc = "compile"
  /\ enable_ocr
  /\ Len(pages) = 2
  /\ HasUsableTable(pages[1])
  /\ ocr_calls = <<1>>

\* the collection in the order the claim gives: text-layer tables in page
\* order then table order, then the OCR tables in page order
RECURSIVE RefTextTables(_)
RefTextTables(ps) ==
  IF ps = <<>> THEN <<>>
  ELSE LET ts == Head(ps).tables
           ok == {t \in 1..Len(ts) : Len(ts[t]) >= 2}
           nth(n) == CHOOSE t \in ok : Cardinality({u \in ok : u < t}) = n - 1
       IN [n \in 1..Cardinality(ok) |->
             DataFrame([r \in 1..(Len(ts[nth(n)]) - 1) |-> ts[nth(n)][r + 1]],
                       make_columns_unique(ts[nth(n)][1]))]
            \o RefTextTables(Tail(ps))

RECURSIVE RefOcrTables(_)
RefOcrTables(ps) ==
  IF ps = <<>> THEN <<>>
  ELSE LET d == extract_ocr_table_from_image(Head(ps).ocr)
       IN (IF Head(ps).tables = <<>> /\ d.rows # <<>> THEN <<d>> ELSE <<>>)
            \o RefOcrTables(Tail(ps))

RECURSIVE RowsBefore(_, _)
RowsBefore(frames, t) ==
  IF t <= 1 THEN 0 ELSE Len(frames[t - 1].rows) + RowsBefore(frames, t - 1)

\* C6: in Done the Dataset's rows are the data rows of every collected table,
\* in collection order (text-layer tables by page then table, then the OCR
\* tables by page) and in row order; no row is dropped for a column mismatch
\* (absent columns are null) and the row count is the sum of the tables' counts.
C6_RowsAreConcatenation ==
  Done =>
    /\ all_tables =
         RefTextTables(pages) \o (IF enable_ocr THEN RefOcrTables(pages) ELSE <<>>)
    /\ Len(download.rows) = RowsBefore(all_tables, Len(all_tables) + 1)
    /\ \A t \in 1..Len(all_tables) :
         \A r \in 1..Len(all_tables[t].rows) :
           LET row == download.rows[RowsBefore(all_tables, t) + r]
               tab == all_tables[t]
           IN /\ Len(row) = Len(download.columns)
              /\ IF HasDuplicates(tab.columns)
                 THEN download.columns = tab.columns /\ row = tab.rows[r]
                 ELSE /\ \A j \in 1..Len(tab.columns) :
                           \E c \in 1..Len(row) :
                             /\ download.columns[c] = tab.columns[j]
                             /\ row[c] = tab.rows[r][j]
                      /\ \A c \in 1..Len(row) :
                           download.columns[c] \notin Range(tab.columns)
                             => row[c] = None

\* C6 witness: Done with two text-layer tables of different columns followed
\* by an OCR table
C6_Witness ==
  /\ Done
  /\ Len(all_tables) = 3
  /\ origins[1].path = "text"
  /\ origins[3].path = "ocr"
  /\ all_tables[1].columns # all_tables[2].columns
  /\ Len(download.rows) = 4

\* C9: a run ends in exactly one of Done, NoTablesFound and Failed; output
\* bytes exist only in Done; a run that completes with nothing collected
\* reports NoTablesFound without output; a run in which an exception was raised
\* reports the failure without output; and a run that has not ended can step.
C9_ThreeOutcomes ==
  /\ pc = "end" =>
       /\ Done \/ NoTablesFound \/ Failed
       /\ ~(Done /\ NoTablesFound)
       /\ ~(Done /\ Failed)
       /\ ~(NoTablesFound /\ Failed)
  /\ download # NoDF <=> Done
  /\ Done => pc = "end"
  /\ (pc = "end" /\ all_tables = <<>>
        /\ failed_at \notin {"open", "extract", "rasterize", "ocr"}) =>
       NoTablesFound /\ download = NoDF
  /\ failed_at # "none" => Failed /\ download = NoDF
  /\ Failed => failed_at # "none"
  /\ pc # "end" => ENABLED Next

\* C9 witness: an image-only PDF with OCR disabled ended in NoTablesFound
C9_Witness ==
  /\ pc = "end"
  /\ ~enable_ocr
  /\ Len(pages) >= 1
  /\ \A p \in PageIndices : pages[p + 1].tables = <<>> /\ ~pages[p + 1].text
  /\ NoTablesFound
  /\ download = NoDF

\* C10: in every state the OCR-applied report is a strictly ascending list of
\* 1-based page numbers of pages outside the text-based set; a page is in it
\* exactly when OCR on it gave a non-empty table that was appended (one entry
\* per OCR table collected); and it stays empty when OCR is disabled.
C10_OcrReport ==
  /\ \A j, k \in 1..Len(ocr_applied_pages) :
       j < k => ocr_applied_pages[j] < ocr_applied_pages[k]
  /\ \A k \in 1..Len(ocr_applied_pages) :
       /\ ocr_applied_pages[k] \in 1..Len(pages)
       /\ (ocr_applied_pages[k] - 1) \notin text_based_pages
  /\ Range(ocr_applied_pages) =
       {p + 1 : p \in {q \in Range(ocr_calls) :
                         ~empty(extract_ocr_table_from_image(pages[q + 1].ocr))}}
  /\ Range(ocr_applied_pages) =
       {origins[t].page + 1 : t \in {u \in 1..Len(origins) : origins[u].path = "ocr"}}
  /\ Len(ocr_applied_pages) =
       Cardinality({u \in 1..Len(origins) : origins[u].path = "ocr"})
  /\ ~enable_ocr => ocr_applied_pages = <<>>

\* C10 witness: OCR gave a table on both pages of a two-page PDF
C10_Witness ==
  /\ ocr_applied_pages = <<1, 2>>
  /\ Len(all_tables) = 2

====
